---- MODULE Spec2Model ----
(***************************************************************************)
(* BabyData (src/app.py): the babies / entries / weights tables, the       *)
(* data-access functions over them, the timeframe resolver and the         *)
(* get-or-create race between two connections.                             *)
(*                                                                         *)
(* Dates are day numbers counted from 2024-01-01 (day 0); a datetime is a  *)
(* record [day, hh, mm, ss]; the TEXT column entries.ts holds the          *)
(* isoformat() string, modelled as the sequence of its character codes.    *)
(***************************************************************************)
EXTENDS Integers, Sequences, FiniteSets, TLC

VARIABLES babies, babySeq, entries, entrySeq, weights, weightSeq, last, conns

vars == <<babies, babySeq, entries, entrySeq, weights, weightSeq, last, conns>>

-----------------------------------------------------------------------------
(* Bounds of the model *)

\* values the sequence babies_id_seq may hand out in one run
MaxBabySeq == 2
\* values the sequence entries_id_seq may hand out in one run
MaxEntrySeq == 2
\* values the sequence weights_id_seq may hand out in one run
MaxWeightSeq == 1

-----------------------------------------------------------------------------
(* datetime.date / datetime.time / datetime.datetime *)

IsLeap(y) == (y % 4 = 0 /\ y % 100 # 0) \/ y % 400 = 0

DaysInYear(y) == IF IsLeap(y) THEN 366 ELSE 365

DaysInMonth(y, m) ==
    IF m = 2 THEN (IF IsLeap(y) THEN 29 ELSE 28)
    ELSE IF m \in {4, 6, 9, 11} THEN 30 ELSE 31

RECURSIVE MonthDayOf(_, _, _)
MonthDayOf(y, m, rem) ==
    IF rem < DaysInMonth(y, m) THEN <<y, m, rem + 1>>
    ELSE MonthDayOf(y, m + 1, rem - DaysInMonth(y, m))

RECURSIVE YearOf(_, _)
YearOf(y, rem) ==
    IF rem < DaysInYear(y) THEN MonthDayOf(y, 1, rem)
    ELSE YearOf(y + 1, rem - DaysInYear(y))

\* day number -> <<year, month, day>>
FromOrdinal(d) == YearOf(2024, d)

RECURSIVE DaysBeforeYear(_)
DaysBeforeYear(y) ==
    IF y <= 2024 THEN 0 ELSE DaysInYear(y - 1) + DaysBeforeYear(y - 1)

RECURSIVE DaysBeforeMonth(_, _)
DaysBeforeMonth(y, m) ==
    IF m <= 1 THEN 0 ELSE DaysInMonth(y, m - 1) + DaysBeforeMonth(y, m - 1)

\* <<year, month, day>> -> day number
ToOrdinal(y, m, d) == DaysBeforeYear(y) + DaysBeforeMonth(y, m) + (d - 1)

\* datetime.combine(day, time(hh, mm, ss))
Combine(day, hh, mm, ss) == [day |-> day, hh |-> hh, mm |-> mm, ss |-> ss]

\* datetime <= datetime (naive datetimes compare field by field)
DtLE(a, b) ==
    \/ a.day < b.day
    \/ a.day = b.day /\ a.hh < b.hh
    \/ a.day = b.day /\ a.hh = b.hh /\ a.mm < b.mm
    \/ a.day = b.day /\ a.hh = b.hh /\ a.mm = b.mm /\ a.ss <= b.ss

-----------------------------------------------------------------------------
(* isoformat(), text comparison, and parsing of ISO strings *)

ChZero == 48
ChDash == 45
ChColon == 58
ChT == 84

Pad2(n) == <<ChZero + (n \div 10), ChZero + (n % 10)>>

Pad4(n) == <<ChZero + (n \div 1000), ChZero + ((n \div 100) % 10),
             ChZero + ((n \div 10) % 10), ChZero + (n % 10)>>

\* date.isoformat(): "YYYY-MM-DD"
DateIso(d) ==
    LET ymd == FromOrdinal(d)
    IN  Pad4(ymd[1]) \o <<ChDash>> \o Pad2(ymd[2]) \o <<ChDash>> \o Pad2(ymd[3])

\* datetime.isoformat() of a naive datetime without microseconds:
\* "YYYY-MM-DDTHH:MM:SS"
IsoFormat(dt) ==
    DateIso(dt.day) \o <<ChT>> \o Pad2(dt.hh) \o <<ChColon>> \o Pad2(dt.mm)
        \o <<ChColon>> \o Pad2(dt.ss)

\* comparison of two TEXT values, character by character from position i
RECURSIVE TextLEFrom(_, _, _)
TextLEFrom(a, b, i) ==
    IF i > Len(a) THEN TRUE
    ELSE IF i > Len(b) THEN FALSE
    ELSE IF a[i] < b[i] THEN TRUE
    ELSE IF a[i] > b[i] THEN FALSE
    ELSE TextLEFrom(a, b, i + 1)

\* a <= b on TEXT values
TextLE(a, b) == TextLEFrom(a, b, 1)

Num2(s, i) == (s[i] - ChZero) * 10 + (s[i + 1] - ChZero)

Num4(s, i) == (s[i] - ChZero) * 1000 + (s[i + 1] - ChZero) * 100
              + (s[i + 2] - ChZero) * 10 + (s[i + 3] - ChZero)

\* pd.to_datetime / datetime.fromisoformat of "YYYY-MM-DDTHH:MM:SS"
ParseIso(s) ==
    Combine(ToOrdinal(Num4(s, 1), Num2(s, 6), Num2(s, 9)),
            Num2(s, 12), Num2(s, 15), Num2(s, 18))

-----------------------------------------------------------------------------
(* Inputs the operations are called with *)

\* 2024-02-29 and 2024-03-01
Days == {59, 60}

\* entry timestamps: the last second of 2024-02-29 and the first second of
\* 2024-03-01
Instants == {Combine(59, 23, 59, 59), Combine(60, 0, 0, 0)}

\* names as typed, before trimming; a name is a sequence of characters
RawNames == {<<"A">>, <<" ", "A", " ">>, <<"B">>, <<" ">>}

\* (milk, pee, poop) checkbox values
FlagChoices == {<<TRUE, FALSE, FALSE>>, <<FALSE, TRUE, TRUE>>}

\* weight dates: 2024-03-01
WeightDays == {60}

\* (pounds, ounces) number inputs
WeightChoices == {<<7, 0>>, <<7, 8>>}

BabyIds == 1..MaxBabySeq

\* range bounds as timeframe_to_range builds them
RangeStarts == {Combine(d, 0, 0, 0) : d \in Days}

RangeEnds == {Combine(d, 23, 59, 59) : d \in Days}

-----------------------------------------------------------------------------
(* babies *)

\* str.strip()
RECURSIVE LStrip(_)
LStrip(s) == IF s # <<>> /\ Head(s) = " " THEN LStrip(Tail(s)) ELSE s

RECURSIVE RStrip(_)
RStrip(s) ==
    IF s # <<>> /\ s[Len(s)] = " " THEN RStrip(SubSeq(s, 1, Len(s) - 1)) ELSE s

Strip(s) == RStrip(LStrip(s))

IdsOf(B) == {r.id : r \in B}

\* SELECT id FROM babies WHERE name = ?  (the set of matching rows)
SelectBabyMissed(B, name) == {}

SelectBaby(B, name) == {r \in B : r.name = name}

\* INSERT INTO babies (name) VALUES (?) RETURNING id, without the UNIQUE check
InsertBabyNoUnique(B, seq, name) ==
    [babies |-> B \cup {[id |-> seq + 1, name |-> name]},
     seq |-> seq + 1, out |-> "ok", ret |-> seq + 1]

\* INSERT INTO babies (name) VALUES (?) RETURNING id; name is UNIQUE and the
\* BIGSERIAL sequence advances whether or not the row is accepted
InsertBaby(B, seq, name) ==
    IF \E r \in B : r.name = name
    THEN [babies |-> B, seq |-> seq + 1, out |-> "UniqueViolation", ret |-> 0]
    ELSE [babies |-> B \cup {[id |-> seq + 1, name |-> name]},
          seq |-> seq + 1, out |-> "ok", ret |-> seq + 1]

\* get_or_create_baby on one connection, run to completion
GetOrCreateBaby(B, seq, rawname) ==
    LET name == Strip(rawname)
        row  == SelectBaby(B, name)
    IN  IF name = <<>>
        THEN [babies |-> B, seq |-> seq, out |-> "ValueError", ret |-> 0]
        ELSE IF row # {}
        THEN [babies |-> B, seq |-> seq, out |-> "ok",
              ret |-> (CHOOSE r \in row : TRUE).id]
        ELSE InsertBaby(B, seq, name)

\* DELETE FROM babies WHERE id = ?  (the rows removed)
DeleteBabyRows(B, baby_id) == {r \in B : r.id = baby_id}

\* REFERENCES babies(id) ON DELETE CASCADE: rows of T left once the babies
\* in gone are removed
CascadeKeepAll(T, gone) == T

Cascade(T, gone) == {r \in T : r.baby_id \notin gone}

-----------------------------------------------------------------------------
(* entries *)

BoolInt(b) == IF b THEN 1 ELSE 0

\* the INSERT of upsert_entry without its ON CONFLICT clause and without
\* the UNIQUE (baby_id, ts) constraint
UpsertAlwaysInsert(E, B, seq, baby_id, when, milk, pee, poop) ==
    IF baby_id \notin IdsOf(B)
    THEN [entries |-> E, out |-> "ForeignKeyViolation"]
    ELSE [entries |-> E \cup {[id |-> seq + 1, baby_id |-> baby_id,
                               ts |-> IsoFormat(when), milk |-> BoolInt(milk),
                               pee |-> BoolInt(pee), poop |-> BoolInt(poop)]},
          out |-> "ok"]

\* an upsert whose DO UPDATE forgets the poop column
UpsertKeepsPoop(E, B, seq, baby_id, when, milk, pee, poop) ==
    LET ts == IsoFormat(when)
    IN  IF baby_id \notin IdsOf(B)
        THEN [entries |-> E, out |-> "ForeignKeyViolation"]
        ELSE IF \E r \in E : r.baby_id = baby_id /\ r.ts = ts
        THEN [entries |-> {IF r.baby_id = baby_id /\ r.ts = ts
                           THEN [r EXCEPT !.milk = BoolInt(milk),
                                          !.pee = BoolInt(pee)]
                           ELSE r : r \in E},
              out |-> "ok"]
        ELSE [entries |-> E \cup {[id |-> seq + 1, baby_id |-> baby_id,
                                   ts |-> ts, milk |-> BoolInt(milk),
                                   pee |-> BoolInt(pee), poop |-> BoolInt(poop)]},
              out |-> "ok"]

\* an upsert into a table whose baby_id column has no REFERENCES clause
UpsertNoForeignKey(E, B, seq, baby_id, when, milk, pee, poop) ==
    LET ts == IsoFormat(when)
    IN  IF \E r \in E : r.baby_id = baby_id /\ r.ts = ts
        THEN [entries |-> {IF r.baby_id = baby_id /\ r.ts = ts
                           THEN [r EXCEPT !.milk = BoolInt(milk),
                                          !.pee = BoolInt(pee),
                                          !.poop = BoolInt(poop)]
                           ELSE r : r \in E},
              out |-> "ok"]
        ELSE [entries |-> E \cup {[id |-> seq + 1, baby_id |-> baby_id,
                                   ts |-> ts, milk |-> BoolInt(milk),
                                   pee |-> BoolInt(pee), poop |-> BoolInt(poop)]},
              out |-> "ok"]

\* upsert_entry: INSERT ... ON CONFLICT(baby_id, ts) DO UPDATE SET milk, pee,
\* poop; baby_id REFERENCES babies(id)
UpsertEntry(E, B, seq, baby_id, when, milk, pee, poop) ==
    LET ts == IsoFormat(when)
    IN  IF baby_id \notin IdsOf(B)
        THEN [entries |-> E, out |-> "ForeignKeyViolation"]
        ELSE IF \E r \in E : r.baby_id = baby_id /\ r.ts = ts
        THEN [entries |-> {IF r.baby_id = baby_id /\ r.ts = ts
                           THEN [r EXCEPT !.milk = BoolInt(milk),
                                          !.pee = BoolInt(pee),
                                          !.poop = BoolInt(poop)]
                           ELSE r : r \in E},
              out |-> "ok"]
        ELSE [entries |-> E \cup {[id |-> seq + 1, baby_id |-> baby_id,
                                   ts |-> ts, milk |-> BoolInt(milk),
                                   pee |-> BoolInt(pee), poop |-> BoolInt(poop)]},
              out |-> "ok"]

\* delete_entry: the rows DELETE ... WHERE baby_id = ? AND ts = ? removes
DeleteEntryRows(E, baby_id, when) ==
    LET ts == IsoFormat(when)
    IN  {r \in E : r.baby_id = baby_id /\ r.ts = ts}

\* a delete_day whose end of day is time(23, 59)
DeleteDayHalfOpen(E, baby_id, day) ==
    LET lo == IsoFormat(Combine(day, 0, 0, 0))
        hi == IsoFormat(Combine(day, 23, 59, 0))
    IN  {r \in E : r.baby_id = baby_id /\ TextLE(lo, r.ts) /\ TextLE(r.ts, hi)}

\* delete_day: the rows DELETE ... WHERE baby_id = ? AND ts BETWEEN ? AND ?
\* removes; BETWEEN compares the TEXT column with the two isoformat strings
DeleteDayRows(E, baby_id, day) ==
    LET start_dt == Combine(day, 0, 0, 0)
        end_dt   == Combine(day, 23, 59, 59)
        lo       == IsoFormat(start_dt)
        hi       == IsoFormat(end_dt)
    IN  {r \in E : r.baby_id = baby_id /\ TextLE(lo, r.ts) /\ TextLE(r.ts, hi)}

\* delete_all_for_baby: the rows DELETE ... WHERE baby_id = ? removes
DeleteAllForBabyRows(E, baby_id) == {r \in E : r.baby_id = baby_id}

\* rows as SELECT ... ORDER BY e.ts ASC returns them: ascending in the TEXT
\* column
RECURSIVE OrderByTs(_)
OrderByTs(S) ==
    IF S = {} THEN <<>>
    ELSE LET first == CHOOSE r \in S : \A o \in S : TextLE(r.ts, o.ts)
         IN  <<first>> \o OrderByTs(S \ {first})

\* the DataFrame rows of fetch_entries: ts parsed, and the date column
\* (the hour column, a display string of the same ts, is left out)
RECURSIVE FrameOf(_)
FrameOf(rows) ==
    IF rows = <<>> THEN <<>>
    ELSE LET r  == Head(rows)
             dt == ParseIso(r.ts)
         IN  <<[ts |-> dt, milk |-> r.milk, pee |-> r.pee, poop |-> r.poop,
                date |-> dt.day]>> \o FrameOf(Tail(rows))

\* df.loc[(df.ts >= start) & (df.ts <= end)]: the rows kept, in order
RECURSIVE Loc(_, _, _)
Loc(df, start, end) ==
    IF df = <<>> THEN <<>>
    ELSE IF DtLE(start, Head(df).ts) /\ DtLE(Head(df).ts, end)
    THEN <<Head(df)>> \o Loc(Tail(df), start, end)
    ELSE Loc(Tail(df), start, end)

\* a fetch_entries whose filter excludes the end instant itself
RECURSIVE LocEndExclusive(_, _, _)
LocEndExclusive(df, start, end) ==
    IF df = <<>> THEN <<>>
    ELSE IF DtLE(start, Head(df).ts) /\ DtLE(Head(df).ts, end) /\ Head(df).ts # end
    THEN <<Head(df)>> \o LocEndExclusive(Tail(df), start, end)
    ELSE LocEndExclusive(Tail(df), start, end)

FetchEntriesEndExclusive(E, baby_id, start, end) ==
    LocEndExclusive(FrameOf(OrderByTs({r \in E : r.baby_id = baby_id})), start, end)

\* fetch_entries: all rows of the baby ordered by ts, parsed, then filtered
\* by (ts >= start) & (ts <= end)
FetchEntries(E, baby_id, start, end) ==
    Loc(FrameOf(OrderByTs({r \in E : r.baby_id = baby_id})), start, end)

\* MAX(ts) over a set of rows: the greatest TEXT value, NULL (<<>>) if none
MaxTs(S) ==
    IF S = {} THEN <<>>
    ELSE (CHOOSE r \in S : \A o \in S : TextLE(o.ts, r.ts)).ts

\* "if ts_str: datetime.fromisoformat(ts_str) else None": <<dt>> or <<>>
Shown(ts_str) == IF ts_str # <<>> THEN <<ParseIso(ts_str)>> ELSE <<>>

\* a latest-per-event query that takes every column from the newest row
LatestOfNewestRow(E, baby_id) ==
    LET own == {r \in E : r.baby_id = baby_id}
    IN  <<Shown(MaxTs(own)), Shown(MaxTs(own)), Shown(MaxTs(own))>>

\* SELECT MAX(ts) FILTER (WHERE milk = 1), MAX(ts) FILTER (WHERE pee = 1),
\* MAX(ts) FILTER (WHERE poop = 1) FROM entries WHERE baby_id = ?
LatestPerEvent(E, baby_id) ==
    LET own == {r \in E : r.baby_id = baby_id}
    IN  <<Shown(MaxTs({r \in own : r.milk = 1})),
          Shown(MaxTs({r \in own : r.pee = 1})),
          Shown(MaxTs({r \in own : r.poop = 1}))>>

-----------------------------------------------------------------------------
(* weights *)

\* a DATE value from its "YYYY-MM-DD" text
ParseDate(s) == ToOrdinal(Num4(s, 1), Num2(s, 6), Num2(s, 9))

\* "Save weight": INSERT INTO weights ... ON CONFLICT (baby_id, date) DO
\* UPDATE SET weight; weight = pounds + ounces / 16, kept here in ounces
SaveWeight(W, B, seq, baby_id, wt_date, weight_lbs, weight_oz) ==
    LET d            == ParseDate(DateIso(wt_date))
        total_weight == weight_lbs * 16 + weight_oz
    IN  IF baby_id \notin IdsOf(B)
        THEN [weights |-> W, out |-> "ForeignKeyViolation"]
        ELSE IF \E r \in W : r.baby_id = baby_id /\ r.date = d
        THEN [weights |-> {IF r.baby_id = baby_id /\ r.date = d
                           THEN [r EXCEPT !.weight = total_weight]
                           ELSE r : r \in W},
              out |-> "ok"]
        ELSE [weights |-> W \cup {[id |-> seq + 1, baby_id |-> baby_id,
                                   date |-> d, weight |-> total_weight]},
              out |-> "ok"]

\* SELECT date, weight FROM weights WHERE baby_id = ? ORDER BY date ASC
RECURSIVE OrderByDate(_)
OrderByDate(S) ==
    IF S = {} THEN <<>>
    ELSE LET first == CHOOSE r \in S : \A o \in S : r.date <= o.date
         IN  <<<<first.date, first.weight>>>> \o OrderByDate(S \ {first})

WeightSeries(W, baby_id) == OrderByDate({r \in W : r.baby_id = baby_id})

-----------------------------------------------------------------------------
(* timeframe_to_range *)

Options == {"Today", "Last 3 days", "Last 7 days", "Last 30 days", "Custom"}

\* values of "today": 2024-01-30, 2024-03-01, 2024-03-10
Todays == {29, 60, 69}

\* custom_range values: None (<<>>), a 1-tuple, pairs, a 3-tuple
CustomDays == {0, 59, 60}

CustomRanges ==
    {<<>>, <<59>>, <<0, 59, 60>>} \cup {<<a, b>> : a \in CustomDays, b \in CustomDays}

\* a resolver whose "Last N days" windows are N days before today
ResolveOffByOne(option, custom_range, today) ==
    LET start_d == IF option = "Today" THEN today
                   ELSE IF option = "Last 3 days" THEN today - 3
                   ELSE IF option = "Last 7 days" THEN today - 7
                   ELSE IF option = "Last 30 days" THEN today - 30
                   ELSE IF custom_range = <<>> \/ Len(custom_range) # 2 THEN today
                   ELSE custom_range[1]
        end_d   == IF option \in {"Today", "Last 3 days", "Last 7 days", "Last 30 days"}
                   THEN today
                   ELSE IF custom_range = <<>> \/ Len(custom_range) # 2 THEN today
                   ELSE custom_range[2]
    IN  <<Combine(start_d, 0, 0, 0), Combine(end_d, 23, 59, 59)>>

\* timeframe_to_range, with today = datetime.now(LOCAL_TZ).date() passed in
TimeframeToRange(option, custom_range, today) ==
    LET start_d == IF option = "Today" THEN today
                   ELSE IF option = "Last 3 days" THEN today - 2
                   ELSE IF option = "Last 7 days" THEN today - 6
                   ELSE IF option = "Last 30 days" THEN today - 29
                   ELSE IF custom_range = <<>> \/ Len(custom_range) # 2 THEN today
                   ELSE custom_range[1]
        end_d   == IF option \in {"Today", "Last 3 days", "Last 7 days", "Last 30 days"}
                   THEN today
                   ELSE IF custom_range = <<>> \/ Len(custom_range) # 2 THEN today
                   ELSE custom_range[2]
    IN  <<Combine(start_d, 0, 0, 0), Combine(end_d, 23, 59, 59)>>

-----------------------------------------------------------------------------
(* State: the three tables, their id sequences, the last call and what it  *)
(* gave back to its caller, and the connections of the concurrent callers  *)

Procs == {1, 2}

\* a call as its caller sees it (op, args, out, ret), and delta: by how many
\* rows the call changed babies, entries and weights (bookkeeping only)
Call(op, args, out, ret, delta) ==
    [op |-> op, args |-> args, out |-> out, ret |-> ret, delta |-> delta]

Delta(B0, B1, E0, E1, W0, W1) ==
    <<Cardinality(B1) - Cardinality(B0), Cardinality(E1) - Cardinality(E0),
      Cardinality(W1) - Cardinality(W0)>>

NoDelta == <<0, 0, 0>>

IdleConn == [pc |-> "idle", name |-> <<>>, row |-> {}, out |-> "none", ret |-> 0]

\* the state after init_db() on an empty database
Init ==
    /\ babies = {}
    /\ babySeq = 0
    /\ entries = {}
    /\ entrySeq = 0
    /\ weights = {}
    /\ weightSeq = 0
    /\ last = Call("init_db", <<>>, "ok", 0, NoDelta)
    /\ conns = [p \in Procs |-> IdleConn]

\* get_or_create_baby(conn, name); conn.commit()
GetOrCreate ==
    \E rawname \in RawNames :
        LET r == GetOrCreateBaby(babies, babySeq, rawname)
        IN  /\ r.seq <= MaxBabySeq
            /\ babies' = r.babies
            /\ babySeq' = r.seq
            /\ last' = Call("get_or_create", <<rawname>>, r.out, r.ret,
                            Delta(babies, r.babies, {}, {}, {}, {}))
            /\ UNCHANGED <<entries, entrySeq, weights, weightSeq, conns>>

\* upsert_entry(conn, baby_id, when, milk, pee, poop); conn.commit()
\* (a failed statement rolls back; the sequence value it drew is spent)
Upsert ==
    \E baby_id \in BabyIds, when \in Instants, f \in FlagChoices :
        LET r == UpsertEntry(entries, babies, entrySeq, baby_id, when,
                             f[1], f[2], f[3])
        IN  /\ entrySeq < MaxEntrySeq
            /\ entries' = r.entries
            /\ entrySeq' = entrySeq + 1
            /\ last' = Call("upsert", <<baby_id, when, f>>, r.out, 0,
                            Delta({}, {}, entries, r.entries, {}, {}))
            /\ UNCHANGED <<babies, babySeq, weights, weightSeq, conns>>

\* count = delete_entry(conn, baby_id, when); conn.commit()
DeleteExact ==
    \E baby_id \in BabyIds, when \in Instants :
        LET gone == DeleteEntryRows(entries, baby_id, when)
        IN  /\ entries' = entries \ gone
            /\ last' = Call("delete_exact", <<baby_id, when>>, "ok", Cardinality(gone),
                            Delta({}, {}, gone, {}, {}, {}))
            /\ UNCHANGED <<babies, babySeq, entrySeq, weights, weightSeq, conns>>

\* count = delete_day(conn, baby_id, day); conn.commit()
DeleteForDay ==
    \E baby_id \in BabyIds, day \in Days :
        LET gone == DeleteDayRows(entries, baby_id, day)
        IN  /\ entries' = entries \ gone
            /\ last' = Call("delete_for_day", <<baby_id, day>>, "ok", Cardinality(gone),
                            Delta({}, {}, gone, {}, {}, {}))
            /\ UNCHANGED <<babies, babySeq, entrySeq, weights, weightSeq, conns>>

\* count = delete_all_for_baby(conn, baby_id); conn.commit()
DeleteForBaby ==
    \E baby_id \in BabyIds :
        LET gone == DeleteAllForBabyRows(entries, baby_id)
        IN  /\ entries' = entries \ gone
            /\ last' = Call("delete_for_baby", <<baby_id>>, "ok", Cardinality(gone),
                            Delta({}, {}, gone, {}, {}, {}))
            /\ UNCHANGED <<babies, babySeq, entrySeq, weights, weightSeq, conns>>

\* delete_everything(conn); conn.commit(): DELETE FROM entries, then DELETE
\* FROM babies, which cascades to what is left of entries and to weights
DeleteAll ==
    /\ babies' = {}
    /\ entries' = Cascade({}, IdsOf(babies))
    /\ weights' = Cascade(weights, IdsOf(babies))
    /\ last' = Call("delete_all", <<>>, "ok", 0,
                    Delta(babies, {}, entries, Cascade({}, IdsOf(babies)),
                          weights, Cascade(weights, IdsOf(babies))))
    /\ UNCHANGED <<babySeq, entrySeq, weightSeq, conns>>

\* count = delete_baby(conn, baby_id); conn.commit()
DeleteBaby ==
    \E baby_id \in BabyIds :
        LET gone == DeleteBabyRows(babies, baby_id)
        IN  /\ babies' = babies \ gone
            /\ entries' = Cascade(entries, IdsOf(gone))
            /\ weights' = Cascade(weights, IdsOf(gone))
            /\ last' = Call("delete", <<baby_id>>, "ok", Cardinality(gone),
                            Delta(gone, {}, entries, Cascade(entries, IdsOf(gone)),
                                  weights, Cascade(weights, IdsOf(gone))))
            /\ UNCHANGED <<babySeq, entrySeq, weightSeq, conns>>

\* the "Save weight" button
SaveWeightOp ==
    \E baby_id \in BabyIds, wt_date \in WeightDays, w \in WeightChoices :
        LET r == SaveWeight(weights, babies, weightSeq, baby_id, wt_date, w[1], w[2])
        IN  /\ weightSeq < MaxWeightSeq
            /\ weights' = r.weights
            /\ weightSeq' = weightSeq + 1
            /\ last' = Call("save_weight", <<baby_id, wt_date, w>>, r.out, 0,
                            Delta({}, {}, {}, {}, weights, r.weights))
            /\ UNCHANGED <<babies, babySeq, entries, entrySeq, conns>>

\* df = fetch_entries(conn, baby_id, start_dt, end_dt)
Fetch ==
    \E baby_id \in BabyIds, start \in RangeStarts, end \in RangeEnds :
        /\ last' = Call("fetch_range", <<baby_id, start, end>>, "ok",
                        FetchEntries(entries, baby_id, start, end), NoDelta)
        /\ UNCHANGED <<babies, babySeq, entries, entrySeq, weights, weightSeq, conns>>

\* the "most recent events" query of main()
Latest ==
    \E baby_id \in BabyIds :
        /\ last' = Call("latest", <<baby_id>>, "ok", LatestPerEvent(entries, baby_id), NoDelta)
        /\ UNCHANGED <<babies, babySeq, entries, entrySeq, weights, weightSeq, conns>>

\* the weight series query of main()
Series ==
    \E baby_id \in BabyIds :
        /\ last' = Call("series", <<baby_id>>, "ok", WeightSeries(weights, baby_id), NoDelta)
        /\ UNCHANGED <<babies, babySeq, entries, entrySeq, weights, weightSeq, conns>>

Next ==
    \/ GetOrCreate
    \/ Upsert
    \/ DeleteExact
    \/ DeleteForDay
    \/ DeleteForBaby
    \/ DeleteAll
    \/ DeleteBaby
    \/ Fetch
    \/ Latest

Spec == Init /\ [][Next]_vars

-----------------------------------------------------------------------------
(* The timeframe resolver on its own *)

Resolve ==
    \E option \in Options, custom_range \in CustomRanges, today \in Todays :
        /\ last' = Call("resolve", <<option, custom_range, today>>, "ok",
                        TimeframeToRange(option, custom_range, today), NoDelta)
        /\ UNCHANGED <<babies, babySeq, entries, entrySeq, weights, weightSeq, conns>>

NextResolve == Resolve

SpecResolve == Init /\ [][NextResolve]_vars

-----------------------------------------------------------------------------
(* Babies with entries and weights: the cascade *)

NextCascade ==
    \/ GetOrCreate
    \/ Upsert
    \/ SaveWeightOp
    \/ DeleteBaby
    \/ DeleteAll
    \/ Series

SpecCascade == Init /\ [][NextCascade]_vars

-----------------------------------------------------------------------------
(* Two connections running get_or_create_baby at once.  Each connection    *)
(* is its own transaction: the SELECT sees committed rows, the INSERT      *)
(* checks the UNIQUE index (waiting while another open transaction holds   *)
(* a row of the same name), and conn.commit() publishes the row.           *)

\* name = name.strip(); if not name: raise ValueError
Begin(p) ==
    \E rawname \in RawNames :
        LET name == Strip(rawname)
        IN  /\ conns[p].pc = "idle"
            /\ conns' = [conns EXCEPT ![p] =
                            IF name = <<>>
                            THEN [@ EXCEPT !.pc = "done", !.out = "ValueError"]
                            ELSE [@ EXCEPT !.pc = "select", !.name = name]]
            /\ UNCHANGED <<babies, babySeq, entries, entrySeq, weights, weightSeq, last>>

\* cur = conn.execute(SELECT id FROM babies WHERE name = ?); row = fetchone()
Select(p) ==
    LET row == SelectBaby(babies, conns[p].name)
    IN  /\ conns[p].pc = "select"
        /\ conns' = [conns EXCEPT ![p] =
                        IF row # {}
                        THEN [@ EXCEPT !.pc = "commit", !.out = "ok",
                                       !.ret = (CHOOSE r \in row : TRUE).id]
                        ELSE [@ EXCEPT !.pc = "insert"]]
        /\ UNCHANGED <<babies, babySeq, entries, entrySeq, weights, weightSeq, last>>

\* cur = conn.execute(INSERT INTO babies (name) VALUES (?) RETURNING id)
Insert(p) ==
    LET r == InsertBaby(babies, babySeq, conns[p].name)
    IN  /\ conns[p].pc = "insert"
        /\ \A q \in Procs \ {p} : \A w \in conns[q].row : w.name # conns[p].name
        /\ babySeq' = r.seq
        /\ conns' = [conns EXCEPT ![p] =
                        IF r.out = "ok"
                        THEN [@ EXCEPT !.pc = "commit", !.out = "ok", !.ret = r.ret,
                                       !.row = r.babies \ babies]
                        ELSE [@ EXCEPT !.pc = "done", !.out = r.out]]
        /\ UNCHANGED <<babies, entries, entrySeq, weights, weightSeq, last>>

\* conn.commit()
Commit(p) ==
    /\ conns[p].pc = "commit"
    /\ babies' = babies \cup conns[p].row
    /\ conns' = [conns EXCEPT ![p] = [@ EXCEPT !.pc = "done", !.row = {}]]
    /\ UNCHANGED <<babySeq, entries, entrySeq, weights, weightSeq, last>>

\* the "with get_conn() as conn" block ends; the connection is free for the
\* next call
Close(p) ==
    /\ conns[p].pc = "done"
    /\ conns' = [conns EXCEPT ![p] = IdleConn]
    /\ UNCHANGED <<babies, babySeq, entries, entrySeq, weights, weightSeq, last>>

NextRace ==
    \E p \in Procs : Begin(p) \/ Select(p) \/ Insert(p) \/ Commit(p) \/ Close(p)

SpecRace == Init /\ [][NextRace]_vars

-----------------------------------------------------------------------------
(* Properties *)

\* the instants a range may start or end at
ClaimInstants == Instants \cup RangeStarts \cup RangeEnds

\* the timestamp a stored row stands for
RowDt(r) == ParseIso(r.ts)

\* start <= RowDt(r) <= end
Within(r, start, end) == DtLE(start, RowDt(r)) /\ DtLE(RowDt(r), end)

\* the positions of a fetched frame whose ts is the instant when
HitsOf(df, when) == {i \in 1..Len(df) : df[i].ts = when}

\* C1: after an upsert for an existing baby, every range fetch that covers
\* the timestamp contains exactly one row for it, carrying exactly the three
\* flags written, whatever was stored before; and repeating the identical
\* upsert leaves the stored entries unchanged.
C1_UpsertThenFetch ==
    /\ []((last.op = "upsert" /\ last.args[1] \in IdsOf(babies)) =>
            LET b    == last.args[1]
                when == last.args[2]
                f    == last.args[3]
            IN  /\ last.out = "ok"
                /\ \A start \in ClaimInstants, end \in ClaimInstants :
                      (DtLE(start, when) /\ DtLE(when, end)) =>
                          LET df   == FetchEntries(entries, b, start, end)
                              hits == HitsOf(df, when)
                          IN  /\ Cardinality(hits) = 1
                              /\ \A i \in hits :
                                    /\ df[i].milk = (IF f[1] THEN 1 ELSE 0)
                                    /\ df[i].pee = (IF f[2] THEN 1 ELSE 0)
                                    /\ df[i].poop = (IF f[3] THEN 1 ELSE 0))
    /\ [][(/\ last.op = "upsert"
           /\ last.out = "ok"
           /\ last'.op = "upsert"
           /\ last'.args = last.args) => entries' = entries
         ]_vars

\* C1 witness: an upsert has replaced the row already stored for its
\* (baby_id, timestamp), and a fetch of that day returns the row.
C1_Witness ==
    /\ last.op = "upsert"
    /\ last.out = "ok"
    /\ last.delta[2] = 0
    /\ Len(FetchEntries(entries, last.args[1],
                        Combine(last.args[2].day, 0, 0, 0),
                        Combine(last.args[2].day, 23, 59, 59))) = 1

\* C2: delete_for_day(baby_id, D) removes exactly the entries of that baby
\* with D 00:00:00 <= timestamp <= D 23:59:59, no other entry, touches no
\* other table, and returns the number of rows it removed.
C2_DeleteForDay ==
    [][last'.op = "delete_for_day" =>
          LET b     == last'.args[1]
              D     == last'.args[2]
              inDay == {r \in entries : /\ r.baby_id = b
                                        /\ Within(r, Combine(D, 0, 0, 0),
                                                  Combine(D, 23, 59, 59))}
          IN  /\ entries' = entries \ inDay
              /\ last'.ret = Cardinality(inDay)
              /\ babies' = babies
              /\ weights' = weights
      ]_vars

\* C2 witness: a delete_for_day of 2024-02-29 removed the baby's entry at
\* 23:59:59 and left its entry at 2024-03-01 00:00:00.
C2_Witness ==
    /\ last.op = "delete_for_day"
    /\ last.args[2] = 59
    /\ last.ret = 1
    /\ \E r \in entries : r.baby_id = last.args[1] /\ RowDt(r) = Combine(60, 0, 0, 0)

\* C5: the entries table holds at most one entry per (baby_id, timestamp).
C5_OneEntryPerKey ==
    \A r1 \in entries, r2 \in entries :
        (r1.baby_id = r2.baby_id /\ r1.ts = r2.ts) => r1 = r2

\* C5 witness: two upserts were made, the second for a key already stored,
\* and the table holds one row.
C5_Witness ==
    /\ entrySeq = 2
    /\ last.op = "upsert"
    /\ last.out = "ok"
    /\ \E r \in entries : /\ r.id = 1
                          /\ r.baby_id = last.args[1]
                          /\ r.ts = IsoFormat(last.args[2])
    /\ Cardinality(entries) = 1

\* C6: fetch_range returns exactly the stored entries of the baby with
\* start <= ts <= end, none of another baby, in ascending timestamp order.
C6_FetchRange ==
    last.op = "fetch_range" =>
        LET b     == last.args[1]
            start == last.args[2]
            end   == last.args[3]
            df    == last.ret
            want  == {r \in entries : r.baby_id = b /\ Within(r, start, end)}
        IN  /\ Len(df) = Cardinality(want)
            /\ \A r \in want : \E i \in 1..Len(df) :
                  /\ df[i].ts = RowDt(r)
                  /\ df[i].milk = r.milk
                  /\ df[i].pee = r.pee
                  /\ df[i].poop = r.poop
            /\ \A i \in 1..Len(df), j \in 1..Len(df) :
                  i < j => (DtLE(df[i].ts, df[j].ts) /\ df[i].ts # df[j].ts)

\* C6 witness: a fetch whose end is 2024-02-29 23:59:59 returned the
\* entry stored at exactly that instant and not the baby's later entry.
C6_Witness ==
    /\ last.op = "fetch_range"
    /\ last.args[3] = Combine(59, 23, 59, 59)
    /\ Len(last.ret) = 1
    /\ last.ret[1].ts = last.args[3]
    /\ Cardinality({r \in entries : r.baby_id = last.args[1]}) = 2

\* the greatest timestamp among a set of rows, as <<dt>>, or <<>> for none
LatestOf(S) ==
    IF S = {} THEN <<>>
    ELSE <<RowDt(CHOOSE r \in S : \A o \in S : DtLE(RowDt(o), RowDt(r)))>>

\* C8: latest_timestamp_per_event gives, for each of milk, pee and poop on
\* its own, the greatest timestamp among the baby's entries with that flag
\* set, and none when no entry of the baby has it set.
C8_LatestPerEvent ==
    last.op = "latest" =>
        LET own == {r \in entries : r.baby_id = last.args[1]}
        IN  /\ last.ret[1] = LatestOf({r \in own : r.milk = 1})
            /\ last.ret[2] = LatestOf({r \in own : r.pee = 1})
            /\ last.ret[3] = LatestOf({r \in own : r.poop = 1})

\* C8 witness: the latest milk comes from an older entry than the latest
\* pee and poop, whose entry has milk cleared.
C8_Witness ==
    /\ last.op = "latest"
    /\ last.ret[1] = <<Combine(59, 23, 59, 59)>>
    /\ last.ret[2] = <<Combine(60, 0, 0, 0)>>
    /\ last.ret[3] = <<Combine(60, 0, 0, 0)>>

\* C3: delete(baby_id) cascades: afterwards every range fetch for that id is
\* empty and its weight series is empty; the call returns 1 if the baby
\* existed and 0 otherwise; other babies, and the entries and weights of
\* other babies, are unchanged.
C3_DeleteCascades ==
    [][last'.op = "delete" =>
          LET b == last'.args[1]
          IN  /\ \A start \in ClaimInstants, end \in ClaimInstants :
                    FetchEntries(entries', b, start, end) = <<>>
              /\ WeightSeries(weights', b) = <<>>
              /\ last'.ret = (IF b \in IdsOf(babies) THEN 1 ELSE 0)
              /\ babies' = {r \in babies : r.id # b}
              /\ entries' = {r \in entries : r.baby_id # b}
              /\ weights' = {r \in weights : r.baby_id # b}
      ]_vars

\* C3 witness: a delete removed a baby together with entries and a weight of
\* that baby, and another baby's entry is still stored.
C3_Witness ==
    /\ last.op = "delete"
    /\ last.ret = 1
    /\ last.delta[2] < 0
    /\ last.delta[3] < 0
    /\ entries # {}

\* C4: get_or_create of a name that is non-empty after trimming succeeds and
\* leaves exactly one babies row with the trimmed name, whose id it returns;
\* a call that directly follows a call for the same trimmed name returns the
\* same id and adds no row.
C4_GetOrCreateIdempotent ==
    /\ [](last.op = "get_or_create" /\ Strip(last.args[1]) # <<>> =>
            /\ last.out = "ok"
            /\ {r \in babies : r.name = Strip(last.args[1])}
                  = {[id |-> last.ret, name |-> Strip(last.args[1])]})
    /\ [][(/\ last.op = "get_or_create"
           /\ last'.op = "get_or_create"
           /\ Strip(last.args[1]) # <<>>
           /\ Strip(last'.args[1]) = Strip(last.args[1])) =>
              (last'.ret = last.ret /\ babies' = babies)
         ]_vars

\* C4 witness: a get_or_create of " A " found the row stored for "A" and
\* returned its id without inserting.
C4_Witness ==
    /\ last.op = "get_or_create"
    /\ last.args[1] = <<" ", "A", " ">>
    /\ last.out = "ok"
    /\ last.delta[1] = 0
    /\ \E r \in babies : r.name = <<"A">> /\ r.id = last.ret

\* the character codes of "2024-03-04T00:00:00" and "2024-03-10T23:59:59"
Mar04Start == <<50, 48, 50, 52, 45, 48, 51, 45, 48, 52, 84,
                48, 48, 58, 48, 48, 58, 48, 48>>

Mar10End == <<50, 48, 50, 52, 45, 48, 51, 45, 49, 48, 84,
              50, 51, 58, 53, 57, 58, 53, 57>>

\* C7: resolve gives (start date 00:00:00, end date 23:59:59); the end date
\* is today and the start date today, today-2, today-6, today-29 for Today,
\* Last 3 days, Last 7 days, Last 30 days; Custom gives custom_range[0] and
\* custom_range[1], or today twice when custom_range is absent or no pair;
\* Last 7 days on 2024-03-10 gives 2024-03-04T00:00:00, 2024-03-10T23:59:59.
C7_Resolve ==
    last.op = "resolve" =>
        LET option == last.args[1]
            custom == last.args[2]
            today  == last.args[3]
            pair   == custom # <<>> /\ Len(custom) = 2
            back   == CASE option = "Today" -> 0
                        [] option = "Last 3 days" -> 2
                        [] option = "Last 7 days" -> 6
                        [] option = "Last 30 days" -> 29
                        [] OTHER -> 0
            startD == IF option # "Custom" THEN today - back
                      ELSE IF pair THEN custom[1] ELSE today
            endD   == IF option = "Custom" /\ pair THEN custom[2] ELSE today
        IN  /\ last.ret[1] = [day |-> startD, hh |-> 0, mm |-> 0, ss |-> 0]
            /\ last.ret[2] = [day |-> endD, hh |-> 23, mm |-> 59, ss |-> 59]
            /\ (option = "Last 7 days" /\ today = 69) =>
                  /\ IsoFormat(last.ret[1]) = Mar04Start
                  /\ IsoFormat(last.ret[2]) = Mar10End

\* C7 witness: Last 7 days was resolved with today = 2024-03-10.
C7_Witness ==
    /\ last.op = "resolve"
    /\ last.args[1] = "Last 7 days"
    /\ last.args[3] = 69
    /\ last.ret[1].day = 63

\* the entry-store operations that take a baby id
EntryOps == {"upsert", "delete_exact", "delete_for_day", "delete_for_baby"}

\* C9 as claimed: an entry-store operation that references a baby id not in
\* babies ends in an error surfaced to the caller.
C9_MissingBabyIsError ==
    (last.op \in EntryOps /\ last.args[1] \notin IdsOf(babies)) => last.out # "ok"

\* C9 as amended: with a baby id not in babies, upsert ends in a
\* foreign-key violation surfaced to the caller, while delete_exact,
\* delete_for_day and delete_for_baby return 0 without an error; all four
\* leave babies, entries and weights unchanged, and no entry is ever stored
\* for a baby id that does not exist.
C9_MissingBaby ==
    /\ [](\A r \in entries : r.baby_id \in IdsOf(babies))
    /\ [][(last'.op \in EntryOps /\ last'.args[1] \notin IdsOf(babies)) =>
             /\ babies' = babies
             /\ entries' = entries
             /\ weights' = weights
             /\ last'.op = "upsert" => last'.out = "ForeignKeyViolation"
             /\ last'.op # "upsert" => (last'.out = "ok" /\ last'.ret = 0)
         ]_vars

\* C9 witness: an upsert for a baby id that is not in babies was refused
\* while entries of an existing baby are stored.
C9_Witness ==
    /\ last.op = "upsert"
    /\ last.args[1] \notin IdsOf(babies)
    /\ last.out = "ForeignKeyViolation"
    /\ entries # {}

\* rows of babies, committed or held by an open transaction
AllBabyRows == babies \cup UNION {conns[p].row : p \in Procs}

\* C10: when two connections run get_or_create for the same trimmed name at
\* once, babies never holds two rows of that name (at most one insert
\* succeeds), each call ends with an id or in a uniqueness violation, and
\* two calls that both return an id return the same id.
C10_RaceKeepsNameUnique ==
    /\ \A r1 \in AllBabyRows, r2 \in AllBabyRows : r1.name = r2.name => r1 = r2
    /\ \A p \in Procs, q \in Procs :
          (/\ conns[p].pc = "done"
           /\ conns[q].pc = "done"
           /\ conns[p].name # <<>>
           /\ conns[p].name = conns[q].name) =>
              /\ conns[p].out \in {"ok", "UniqueViolation"}
              /\ (conns[p].out = "ok" /\ conns[q].out = "ok")
                    => conns[p].ret = conns[q].ret
              /\ conns[p].out = "ok" =>
                    \E r \in babies : r.name = conns[p].name /\ r.id = conns[p].ret

\* C10 witness: both connections asked for the same name; one inserted and
\* committed it, the other lost on the UNIQUE index.
C10_Witness ==
    /\ conns[1].pc = "done"
    /\ conns[2].pc = "done"
    /\ conns[1].name = conns[2].name
    /\ conns[1].out = "ok"
    /\ conns[2].out = "UniqueViolation"
    /\ Cardinality(babies) = 1

====
